---------------------------- MODULE Spec2Model ----------------------------
(***************************************************************************)
(* A model of src/seir/model.py: the class SEIR, its constructor, the      *)
(* derivative law __call__, set_initial_state, simulate and                *)
(* evaluate_solution.                                                      *)
(*                                                                         *)
(* Python values are tagged records: None, a number, a 1-d ndarray, a 2-d  *)
(* ndarray, a function.  Real numbers are exact rationals <<n, d>> in      *)
(* lowest terms with d > 0; durations, lags and query times are integers.  *)
(* A call either returns a value or raises; Ok/Raise carry the outcome.    *)
(***************************************************************************)
EXTENDS Integers, Sequences, FiniteSets, TLC

VARIABLES
    self,        \* the SEIR instance: PyNone before (or after a failed) construction
    op,          \* the name of the last call made
    args,        \* its arguments
    raised,      \* "" when it returned, else the exception it raised
    ret,         \* what it returned
    setCalled,   \* history: set_initial_state has been called on the instance
    simCalls     \* history: "none" (simulate not called), "failed" (every call of
                 \* it raised) or "ok" (a call of it returned)

vars == <<self, op, args, raised, ret, setCalled, simCalls>>

----------------------------------------------------------------------------
(* Bounds of the model *)

MaxN == 2          \* compartments
MaxDays == 2       \* horizon passed to simulate
MaxTimes == 3      \* length of a query time array
MaxLag == 1        \* lag from onset, in days
MaxDur == 2        \* duration (boxcar width), in days

----------------------------------------------------------------------------
(* Exact arithmetic standing for Python's floats *)

Abs(x) == IF x < 0 THEN -x ELSE x

RECURSIVE Gcd(_, _)
Gcd(a, b) == IF b = 0 THEN a ELSE Gcd(b, a % b)

\* n/d in lowest terms.  A zero denominator is kept as the floats keep it:
\* <<1, 0>> is inf, <<-1, 0>> is -inf and <<0, 0>> is nan.
Sign(x) == IF x < 0 THEN -1 ELSE IF x > 0 THEN 1 ELSE 0
Rat(n, d) ==
    IF d = 0 THEN <<Sign(n), 0>>
    ELSE LET s == IF d < 0 THEN -1 ELSE 1
             g == Gcd(Abs(n), Abs(d))
         IN  <<(s * n) \div g, (s * d) \div g>>

FromInt(k) == <<k, 1>>
Zero == <<0, 1>>
One == <<1, 1>>
RAdd(x, y) == Rat(x[1] * y[2] + y[1] * x[2], x[2] * y[2])
RNeg(x) == <<-x[1], x[2]>>
RSub(x, y) == RAdd(x, RNeg(y))
RMul(x, y) == Rat(x[1] * y[1], x[2] * y[2])
RDiv(x, y) == Rat(x[1] * y[2], x[2] * y[1])
Floor(x) == IF x[2] = 0 THEN x ELSE FromInt(x[1] \div x[2])

----------------------------------------------------------------------------
(* Python values and call outcomes *)

PyNone == [tag |-> "None"]
Num(x) == [tag |-> "num", v |-> x]
Arr(s) == [tag |-> "ndarray", v |-> s]
Mat(rows) == [tag |-> "ndarray2", v |-> rows]
Fun(name) == [tag |-> "function", name |-> name]

Ok(v) == [raised |-> "", v |-> v]
Raise(e) == [raised |-> e, v |-> PyNone]

----------------------------------------------------------------------------
(* numpy on 1-d arrays (sequences) and 2-d arrays (sequences of rows) *)

\* An array holds the values of its entries: the sequence s with every entry
\* computed once, here, and not at each later read.
Array(s) == s \o <<>>

RECURSIVE SumSeq(_)
SumSeq(s) == IF s = <<>> THEN Zero ELSE RAdd(Head(s), SumSeq(Tail(s)))

ones(n) == Array([i \in 1..n |-> One])
zeros(n) == Array([i \in 1..n |-> Zero])
Scale(x, s) == Array([i \in 1..Len(s) |-> RMul(x, s[i])])
Concat4(a, b, c, d) == a \o b \o c \o d

\* Broadcasting of two 1-d shapes: equal, or one of them 1.
Broadcastable(m, n) == m = n \/ m = 1 \/ n = 1
BLen(m, n) == IF m >= n THEN m ELSE n
BAt(s, i) == IF Len(s) = 1 THEN s[1] ELSE s[i]

\* np.multiply / np.divide / subtraction of two 1-d arrays of broadcastable shapes
VMul(a, b) == Array([i \in 1..BLen(Len(a), Len(b)) |-> RMul(BAt(a, i), BAt(b, i))])
VDiv(a, b) == Array([i \in 1..BLen(Len(a), Len(b)) |-> RDiv(BAt(a, i), BAt(b, i))])
VAdd(a, b) == Array([i \in 1..BLen(Len(a), Len(b)) |-> RAdd(BAt(a, i), BAt(b, i))])
VSub(a, b) == Array([i \in 1..BLen(Len(a), Len(b)) |-> RSub(BAt(a, i), BAt(b, i))])
VNeg(a) == Array([i \in 1..Len(a) |-> RNeg(a[i])])

\* vector @ matrix and matrix @ vector
VecMat(p, C) == Array([j \in 1..Len(C[1]) |-> SumSeq(Array([i \in 1..Len(p) |-> RMul(p[i], C[i][j])]))])
MatVec(M, x) == Array([i \in 1..Len(M) |-> SumSeq(Array([j \in 1..Len(x) |-> RMul(M[i][j], x[j])]))])

\* np.split(Y, 4): the k-th of four equal blocks
Block(Y, k) == LET n == Len(Y) \div 4 IN Array([i \in 1..n |-> Y[(k - 1) * n + i]])
\* np.split(A, 4, axis=-1)[k-1] of a 2-d array: the k-th block of every row
BlockRows(A, k) == Array([r \in 1..Len(A) |-> Block(A[r], k)])

----------------------------------------------------------------------------
(* SEIR.__init__ and its helpers *)

List(s) == [tag |-> "list", v |-> s]

\* bool(x) of an optional list: None and the empty list are false
ListTruth(x) == x.tag = "list" /\ Len(x.v) > 0

\* x.size of a 2-d array, and its shape
MatRows(m) == Len(m.v)
MatCols(m) == IF Len(m.v) = 0 THEN 0 ELSE Len(m.v[1])
MatSize(m) == MatRows(m) * MatCols(m)

\* bool(x) of an optional ndarray, as `if contacts_matrix:` evaluates it: None
\* is false, an empty array is false, a one-element array is its element's
\* truth, and an array of more than one element raises ValueError.
ArrayTruth(m) ==
    IF m.tag = "None" THEN Ok(FALSE)
    ELSE IF MatSize(m) = 0 THEN Ok(FALSE)
    ELSE IF MatSize(m) = 1 THEN Ok(m.v[1][1] # Zero)
    ELSE Raise("ValueError")

\* SEIR._fix_size: a number is broadcast to N entries, an array must have size N
fix_size(N, x) ==
    IF x.tag = "num" THEN Ok(Arr(Scale(x.v, ones(N))))
    ELSE IF Len(x.v) = N THEN Ok(x)
    ELSE Raise("AssertionError")

\* the population's own check before _fix_size
population_check(N, x) ==
    IF x.tag = "num" THEN (IF N = 1 THEN Ok(x) ELSE Raise("AssertionError"))
    ELSE IF Len(x.v) = N THEN Ok(x) ELSE Raise("AssertionError")

\* the contact matrix the constructor goes on with: the supplied one when it is
\* truthy and N x N, the all-ones one when it is falsy
contacts_choice(N, cm) ==
    LET t == ArrayTruth(cm) IN
    IF t.raised # "" THEN Raise(t.raised)
    ELSE IF t.v THEN
        (IF MatRows(cm) # N THEN Raise("AssertionError")
         ELSE IF MatCols(cm) # N THEN Raise("AssertionError")
         ELSE Ok(cm.v))
    ELSE Ok(Array([i \in 1..N |-> ones(N)]))

\* SEIR._compute_infectivity_matrix: normalization is a length-N vector
\* (1 / infectious_period * R0 * population.sum() / (population @ C).sum()),
\* multiplied into the matrix by broadcasting along the last axis.
compute_infectivity_matrix(infectious_period, initial_R0, population, C) ==
    LET total == SumSeq(VecMat(population, C))
        popsum == SumSeq(population)
        normalization ==
            Array([j \in 1..Len(infectious_period) |->
                RDiv(RMul(RMul(RDiv(One, infectious_period[j]), initial_R0), popsum), total)])
    IN  Array([i \in 1..Len(C) |-> Array([j \in 1..Len(C[i]) |-> RMul(normalization[j], C[i][j])])])

\* A constructor that would start from an all-zero state instead of None.
Y0_unset_zeros(N) == Arr(zeros(4 * N))

\* self.Y0 as the constructor leaves it
Y0_unset(N) == PyNone

\* The constructor: the instance it builds, or the exception it raises.
SEIR_init(a) ==
    LET compartments == IF ListTruth(a.compartments) THEN a.compartments.v ELSE <<"All">>
        N == Len(compartments)
        inc == fix_size(N, a.incubation_period)
        inf == fix_size(N, a.infectious_period)
        hp == fix_size(N, a.hospitalization_probability)
        ip == fix_size(N, a.icu_probability)
        dp == fix_size(N, a.death_probability)
        pc == population_check(N, a.population)
        pop == fix_size(N, a.population)
        cm == contacts_choice(N, a.contacts_matrix)
    IN
    IF inc.raised # "" THEN Raise(inc.raised)
    ELSE IF inf.raised # "" THEN Raise(inf.raised)
    ELSE IF hp.raised # "" THEN Raise(hp.raised)
    ELSE IF ip.raised # "" THEN Raise(ip.raised)
    ELSE IF dp.raised # "" THEN Raise(dp.raised)
    ELSE IF pc.raised # "" THEN Raise(pc.raised)
    ELSE IF pop.raised # "" THEN Raise(pop.raised)
    ELSE IF cm.raised # "" THEN Raise(cm.raised)
    ELSE Ok([tag |-> "SEIR",
             compartments |-> compartments,
             num_compartments |-> N,
             incubation_period |-> inc.v,
             infectious_period |-> inf.v,
             initial_R0 |-> a.initial_R0,
             hospitalization_probability |-> hp.v,
             hospitalization_duration |-> a.hospitalization_duration,
             hospitalization_lag_from_onset |-> a.hospitalization_lag_from_onset,
             icu_probability |-> ip.v,
             icu_duration |-> a.icu_duration,
             icu_lag_from_onset |-> a.icu_lag_from_onset,
             death_probability |-> dp.v,
             death_lag_from_onset |-> a.death_lag_from_onset,
             population |-> pop.v,
             infectivity_matrix |->
                 compute_infectivity_matrix(inf.v.v, a.initial_R0, pop.v.v, cm.v),
             restrictions_function |-> a.restrictions_function,
             imported_cases_function |-> a.imported_cases_function,
             Y0 |-> Y0_unset(N),
             SEIR_solution |-> PyNone])

----------------------------------------------------------------------------
(* SEIR.__call__: the derivative law *)

\* What a configured imported_cases_function returns at time t: (DS, DE, DI).
\* "seedE" injects one exposed person a day into every compartment.
imported_cases_value(f, t, N) == <<zeros(N), ones(N), zeros(N)>>

\* The name `restrictions_function` that __call__ reads is neither a local nor a
\* module global (the configured function is self.restrictions_function), so
\* the lookup raises NameError.
restrictions_lookup(s, t) == Raise("NameError")

\* np.multiply(r, M): a number r times every entry of the matrix
MatScale(r, M) == Array([i \in 1..Len(M) |-> Array([j \in 1..Len(M[i]) |-> RMul(r, M[i][j])])])

\* The rates for a given effective infectivity matrix.  np.split(Y, 4) needs
\* four equal blocks, and a block of another size than N cannot enter
\* infectivity_matrix @ Ia: ValueError.
rate_law(s, infectivity_matrix, t, Y) ==
    IF Len(Y) # 4 * s.num_compartments THEN Raise("ValueError")
    ELSE
    LET N == s.num_compartments
        Sa == Block(Y, 1)
        Ea == Block(Y, 2)
        Ia == Block(Y, 3)
        dS_dt == VMul(VNeg(VDiv(Sa, s.population.v)), MatVec(infectivity_matrix, Ia))
        dE_dt == VSub(VNeg(dS_dt), VDiv(Ea, s.incubation_period.v))
        dI_dt == VSub(VDiv(Ea, s.incubation_period.v), VDiv(Ia, s.infectious_period.v))
        dR_dt == VDiv(Ia, s.infectious_period.v)
        imp == s.imported_cases_function.tag # "None"
        D == imported_cases_value(s.imported_cases_function, t, N)
    IN  Ok(Concat4(IF imp THEN VAdd(dS_dt, D[1]) ELSE dS_dt,
                   IF imp THEN VAdd(dE_dt, D[2]) ELSE dE_dt,
                   IF imp THEN VAdd(dI_dt, D[3]) ELSE dI_dt,
                   dR_dt))

SEIR_call(s, t, Y) ==
    LET r == IF s.restrictions_function.tag # "None"
             THEN restrictions_lookup(s, t) ELSE Ok(One)
    IN  IF r.raised # "" THEN Raise(r.raised)
        ELSE IF s.restrictions_function.tag # "None"
        THEN rate_law(s, MatScale(r.v, s.infectivity_matrix), t, Y)
        ELSE rate_law(s, s.infectivity_matrix, t, Y)

----------------------------------------------------------------------------
(* SEIR.set_initial_state *)

\* np.multiply(x, self.population): a number or an array of a broadcastable size
times_population(s, x) ==
    LET xv == IF x.tag = "num" THEN <<x.v>> ELSE x.v IN
    IF Broadcastable(Len(xv), Len(s.population.v))
    THEN Ok(VMul(xv, s.population.v)) ELSE Raise("ValueError")

\* the raw-count branch: a number goes to self._fix_sizes, a method the class
\* does not have (AttributeError); an array must have size N
raw_count(s, x) ==
    IF x.tag = "num" THEN Raise("AttributeError")
    ELSE IF Len(x.v) = s.num_compartments THEN Ok(x.v)
    ELSE Raise("AssertionError")

\* The new self.Y0, or the exception raised before it is assigned.
set_initial_state(s, pS, pE, pI, probabilities) ==
    LET S == IF probabilities THEN times_population(s, pS) ELSE raw_count(s, pS)
        E == IF probabilities THEN times_population(s, pE) ELSE raw_count(s, pE)
        I == IF probabilities THEN times_population(s, pI) ELSE raw_count(s, pI)
        R == zeros(s.num_compartments)
    IN
    IF S.raised # "" THEN Raise(S.raised)
    ELSE IF E.raised # "" THEN Raise(E.raised)
    ELSE IF I.raised # "" THEN Raise(I.raised)
    ELSE Ok(Arr(Concat4(S.v, E.v, I.v, R)))

----------------------------------------------------------------------------
(* SEIR.simulate *)

\* One step of the integrator standing for solve_ivp(DOP853): forward Euler
\* with a step of one day, rounded down to whole persons.
EulerStep(Y, dY) == Array([i \in 1..Len(Y) |-> Floor(RAdd(Y[i], dY[i]))])

\* The dense solution on the days 0..days: a sequence whose entry k+1 is the
\* state at day k.  The first entry is y0 itself.
RECURSIVE Trajectory(_, _, _)
Trajectory(s, sofar, days) ==
    IF Len(sofar) = days + 1 THEN Ok(sofar)
    ELSE LET t == Len(sofar) - 1
             Y == sofar[Len(sofar)]
             f == SEIR_call(s, t, Y)
         IN  IF f.raised # "" THEN Raise(f.raised)
             ELSE Trajectory(s, Append(sofar, EulerStep(Y, f.v)), days)

\* solve_ivp converts y0 to a float array first: None is a TypeError
solve_ivp(s, y0, days) ==
    IF y0.tag = "None" THEN Raise("TypeError")
    ELSE Trajectory(s, <<y0.v>>, days)

\* The closure stored in self.SEIR_solution: it captures `solution` and `self`
\* (so it reads self.Y0 when it is called, not when it is made).
simulate(s, days) ==
    LET solution == solve_ivp(s, s.Y0, days) IN
    IF solution.raised # "" THEN Raise(solution.raised)
    ELSE Ok([tag |-> "function", solution |-> solution.v])

----------------------------------------------------------------------------
(* The closure SEIR_solution and SEIR.evaluate_solution *)

\* The closure made by simulate, called on a 1-d array of query times: the rows
\* of the non-negative times (in their order) are read from the dense solution,
\* one copy of the current self.Y0 is made per negative time, and the copies
\* are put in front.  np.concatenate needs rows of one length.
SEIR_solution(s, time) ==
    LET sol == s.SEIR_solution.solution
        pos == SelectSeq(time, LAMBDA t : t >= 0)
        SEIR == Array([k \in 1..Len(pos) |-> sol[pos[k] + 1]])
        INI == Array([k \in 1..(Len(time) - Len(pos)) |-> s.Y0.v])
    IN  IF Len(s.Y0.v) # Len(sol[1]) THEN Raise("ValueError")
        ELSE Ok(INI \o SEIR)

\* time - lag, the lag a number or (stored as given) an array
minus_lag(time, lag) ==
    LET lv == IF lag.tag = "num" THEN <<lag.v>> ELSE lag.v IN
    IF Broadcastable(Len(time), Len(lv))
    THEN Ok(Array([i \in 1..BLen(Len(time), Len(lv)) |-> BAt(time, i) - BAt(lv, i)]))
    ELSE Raise("ValueError")

\* np.ones(d): d a number is a 1-d window; d an array is a shape, so one entry
\* gives a 1-d window and more entries an array of more dimensions
np_ones(d) ==
    LET dv == IF d.tag = "num" THEN <<d.v>> ELSE d.v IN
    IF \E i \in 1..Len(dv) : dv[i] < 0 THEN Raise("ValueError")
    ELSE IF Len(dv) = 1 THEN Ok([ndim |-> 1, v |-> ones(dv[1])])
    ELSE Ok([ndim |-> Len(dv), v |-> <<>>])

\* entry m (from 0) of the full discrete convolution of a and v
FullConv(a, v, m) ==
    SumSeq(Array([j \in 1..Len(v) |->
        IF m - (j - 1) >= 0 /\ m - (j - 1) <= Len(a) - 1
        THEN RMul(a[m - (j - 1) + 1], v[j]) ELSE Zero]))

\* np.convolve(a, v, mode='same'): max(len) entries, centred in the full result
convolve_same(a, v) ==
    LET n1 == BLen(Len(a), Len(v))
        n2 == IF Len(a) <= Len(v) THEN Len(a) ELSE Len(v)
    IN  Array([i \in 1..n1 |-> FullConv(a, v, (i - 1) + ((n2 - 1) \div 2))])

Column(A, i) == Array([r \in 1..Len(A) |-> A[r][i]])

\* np.stack([np.convolve(X[:, i], window, mode='same') for i in range(N)], axis=-1)
active_cases(X, window, N) ==
    IF window.ndim # 1 \/ Len(window.v) = 0 \/ Len(X) = 0 THEN Raise("ValueError")
    ELSE LET cols == Array([i \in 1..N |-> convolve_same(Column(X, i), window.v)])
         IN  Ok(Array([r \in 1..Len(cols[1]) |-> Array([i \in 1..N |-> cols[i][r]])]))

\* np.multiply(probability, np.divide(block, incubation_period)), row by row
new_cases_a_day(probability, block, incubation_period) ==
    Array([r \in 1..Len(block) |-> VMul(probability, VDiv(block[r], incubation_period))])

\* np.cumsum(X, axis=0)
cumsum(X) ==
    Array([r \in 1..Len(X) |->
        Array([i \in 1..Len(X[r]) |-> SumSeq(Array([q \in 1..r |-> X[q][i]]))])])

\* the block of the lag-shifted state that each series is built from
\* (np.split(...)[k] counts from 0: 1 is E, 2 is I)
HospBlock == 2
IcuBlock == 3
DeathBlock == 2

\* the window the ICU convolution is given: Hwindow
icu_convolution_window(Hwindow, ICUwindow) == Hwindow

H_new_cases_a_day(s, time) ==
    LET t == minus_lag(time, s.hospitalization_lag_from_onset)
        Y == IF t.raised # "" THEN t ELSE SEIR_solution(s, t.v)
    IN  IF Y.raised # "" THEN Raise(Y.raised)
        ELSE Ok(new_cases_a_day(s.hospitalization_probability.v,
                                BlockRows(Y.v, HospBlock), s.incubation_period.v))

ICU_new_cases_a_day(s, time) ==
    LET t == minus_lag(time, s.icu_lag_from_onset)
        Y == IF t.raised # "" THEN t ELSE SEIR_solution(s, t.v)
    IN  IF Y.raised # "" THEN Raise(Y.raised)
        ELSE Ok(new_cases_a_day(s.icu_probability.v,
                                BlockRows(Y.v, IcuBlock), s.incubation_period.v))

DEATH_new_cases_a_day(s, time) ==
    LET t == minus_lag(time, s.death_lag_from_onset)
        Y == IF t.raised # "" THEN t ELSE SEIR_solution(s, t.v)
    IN  IF Y.raised # "" THEN Raise(Y.raised)
        ELSE Ok(new_cases_a_day(s.death_probability.v,
                                BlockRows(Y.v, DeathBlock), s.incubation_period.v))

evaluate_solution(s, time) ==
    IF s.SEIR_solution.tag = "None" THEN Raise("TypeError")
    ELSE
    LET N == s.num_compartments
        SEIR == SEIR_solution(s, time)
        Hnew == H_new_cases_a_day(s, time)
        Hwindow == np_ones(s.hospitalization_duration)
        H == IF Hnew.raised # "" THEN Hnew
             ELSE IF Hwindow.raised # "" THEN Hwindow
             ELSE active_cases(Hnew.v, Hwindow.v, N)
        ICUnew == ICU_new_cases_a_day(s, time)
        ICUwindow == np_ones(s.icu_duration)
        ICU == IF ICUnew.raised # "" THEN ICUnew
               ELSE IF ICUwindow.raised # "" THEN ICUwindow
               ELSE active_cases(ICUnew.v,
                                 icu_convolution_window(Hwindow.v, ICUwindow.v), N)
        Dnew == DEATH_new_cases_a_day(s, time)
    IN
    IF SEIR.raised # "" THEN Raise(SEIR.raised)
    ELSE IF H.raised # "" THEN Raise(H.raised)
    ELSE IF ICU.raised # "" THEN Raise(ICU.raised)
    ELSE IF Dnew.raised # "" THEN Raise(Dnew.raised)
    ELSE Ok([S |-> BlockRows(SEIR.v, 1),
             E |-> BlockRows(SEIR.v, 2),
             I |-> BlockRows(SEIR.v, 3),
             R |-> BlockRows(SEIR.v, 4),
             H_active_cases |-> H.v,
             ICU_active_cases |-> ICU.v,
             deaths |-> cumsum(Dnew.v)])

----------------------------------------------------------------------------
(* The inputs the calls are made with *)

RealParams == {"incubation_period", "infectious_period",
               "hospitalization_probability", "icu_probability",
               "death_probability", "population"}
IntParams == {"hospitalization_duration", "hospitalization_lag_from_onset",
              "icu_duration", "icu_lag_from_onset", "death_lag_from_onset"}
ParamNames == RealParams \cup IntParams
Shapes == {"num", "vecN", "vecBad"}

\* The shape a parameter has unless the call varies it: a population is given
\* per compartment, everything else as one number.
DefaultShape(p) == IF p = "population" THEN "vecN" ELSE "num"

BaseReal(p) ==
    CASE p = "incubation_period" -> FromInt(2)
      [] p = "infectious_period" -> FromInt(2)
      [] p = "hospitalization_probability" -> Rat(1, 2)
      [] p = "icu_probability" -> Rat(1, 4)
      [] p = "death_probability" -> Rat(1, 2)
      [] p = "population" -> FromInt(8)

\* A number, an array of n entries (entry i is i times the number for a real
\* parameter, the number itself for a whole one), or an array one too long.
Shaped(real, x, shape, n) ==
    LET entry(i) == IF real THEN RMul(x, FromInt(i)) ELSE x IN
    CASE shape = "num" -> Num(x)
      [] shape = "vecN" -> Arr(Array([i \in 1..n |-> entry(i)]))
      [] shape = "vecBad" -> Arr(Array([i \in 1..(n + 1) |-> entry(i)]))

Compartments == {PyNone} \cup {List(Array([i \in 1..n |-> i])) : n \in 1..MaxN}
NOf(c) == IF ListTruth(c) THEN Len(c.v) ELSE 1

\* Contact matrices: k x k, all zero or with 2 on the diagonal and 1 elsewhere
ContactMatrices ==
    {PyNone} \cup
    {Mat(Array([i \in 1..k |-> Array([j \in 1..k |-> IF kind = "zero" THEN Zero
                                          ELSE IF i = j THEN FromInt(2) ELSE One])]))
       : k \in 1..MaxN, kind \in {"zero", "mix"}}

RestrictionFunctions == {PyNone, Fun("zero")}
ImportedCasesFunctions == {PyNone, Fun("seedE")}

\* what restrictions_function(t) returns: the full stop returns 0 at every t
restrictions_value(f, t) == Zero

BaseClinical == [hd |-> 2, id |-> 1, hl |-> 0, il |-> 1, dl |-> 1]
\* the base durations and lags with one of them changed
Clinical ==
    {[BaseClinical EXCEPT ![f] = d] : f \in {"hd", "id"}, d \in 1..MaxDur}
    \cup {[BaseClinical EXCEPT ![f] = l] : f \in {"hl", "il", "dl"}, l \in 0..MaxLag}

\* The keyword arguments of one construction: parameter p is given in shape sh,
\* the others in their default shape.
CtorArgs(c, p, sh, k, cm, rf, icf) ==
    LET n == NOf(c)
        shape(q) == IF q = p THEN sh ELSE DefaultShape(q)
        real(q) == Shaped(TRUE, BaseReal(q), shape(q), n)
        whole(q, x) == Shaped(FALSE, x, shape(q), n)
    IN  [compartments |-> c,
         incubation_period |-> real("incubation_period"),
         infectious_period |-> real("infectious_period"),
         initial_R0 |-> FromInt(2),
         hospitalization_probability |-> real("hospitalization_probability"),
         hospitalization_duration |-> whole("hospitalization_duration", k.hd),
         hospitalization_lag_from_onset |-> whole("hospitalization_lag_from_onset", k.hl),
         icu_probability |-> real("icu_probability"),
         icu_duration |-> whole("icu_duration", k.id),
         icu_lag_from_onset |-> whole("icu_lag_from_onset", k.il),
         death_probability |-> real("death_probability"),
         death_lag_from_onset |-> whole("death_lag_from_onset", k.dl),
         population |-> real("population"),
         contacts_matrix |-> cm,
         restrictions_function |-> rf,
         imported_cases_function |-> icf]

\* The constructions made: the base call (one unnamed compartment, default
\* shapes, base durations and lags, no matrix, no functions) with one thing
\* varied, and every contact matrix with every list of compartments.
CtorCalls ==
    LET base == [c |-> PyNone, p |-> "population", sh |-> "vecN", k |-> BaseClinical,
                 cm |-> PyNone, rf |-> PyNone, icf |-> PyNone]
    IN  {[base EXCEPT !.c = c, !.cm = cm] : c \in Compartments, cm \in ContactMatrices}
        \cup {[base EXCEPT !.p = p, !.sh = sh] : p \in ParamNames, sh \in Shapes}
        \cup {[base EXCEPT !.k = k] : k \in Clinical}
        \cup {[base EXCEPT !.rf = rf] : rf \in RestrictionFunctions}
        \cup {[base EXCEPT !.icf = icf] : icf \in ImportedCasesFunctions}

\* set_initial_state's S, E, I: fractions of the population, or counts
Fraction(q) == CASE q = "S" -> Rat(1, 2) [] q = "E" -> Rat(1, 4) [] q = "I" -> Rat(1, 4)
Count(q) == CASE q = "S" -> FromInt(6) [] q = "E" -> FromInt(2) [] q = "I" -> Zero
StateInput(q, shape, probabilities, n) ==
    LET x == IF probabilities THEN Fraction(q) ELSE Count(q) IN
    CASE shape = "num" -> Num(x)
      [] shape = "vecN" -> Arr(Array([i \in 1..n |-> x]))
      [] shape = "vecBad" -> Arr(Array([i \in 1..(n + 1) |-> x]))

\* the shapes S, E and I are given in: all numbers, all arrays of size N, a
\* number among arrays, an array of another size among arrays
StateShapes == {<<"num", "num", "num">>, <<"vecN", "vecN", "vecN">>,
                <<"num", "vecN", "vecN">>, <<"vecN", "vecBad", "vecN">>}

SetArgs(sh, probabilities, n) ==
    [population_susceptible |-> StateInput("S", sh[1], probabilities, n),
     population_exposed |-> StateInput("E", sh[2], probabilities, n),
     population_infected |-> StateInput("I", sh[3], probabilities, n),
     probabilities |-> probabilities]

\* the states the derivative law is evaluated at
CallStates(n) ==
    {Concat4(Array([i \in 1..n |-> FromInt(6)]), Array([i \in 1..n |-> FromInt(e)]),
             Array([i \in 1..n |-> FromInt(1)]), zeros(n)) : e \in {0, 2}}

\* query time arrays: a grid of 1..MaxTimes consecutive whole days within
\* -MaxLag..hi, ascending (np.arange) or reversed
TimeArrays(hi) ==
    {Array([i \in 1..g.len |-> IF g.up THEN g.t0 + (i - 1) ELSE g.t0 + (g.len - i)]) :
        g \in {h \in [len : 1..MaxTimes, t0 : (-MaxLag)..hi, up : BOOLEAN] :
                    h.t0 + h.len - 1 <= hi}}

\* the last day the dense solution covers (day 0 when there is none yet)
Horizon(s) == IF s.SEIR_solution.tag = "None" THEN 0
              ELSE Len(s.SEIR_solution.solution) - 1

----------------------------------------------------------------------------
(* The calls *)

Init ==
    /\ self = PyNone
    /\ op = ""
    /\ args = PyNone
    /\ raised = ""
    /\ ret = PyNone
    /\ setCalled = FALSE
    /\ simCalls = "none"

Construct ==
    /\ op = ""
    /\ \E x \in CtorCalls :
        \E a \in {CtorArgs(x.c, x.p, x.sh, x.k, x.cm, x.rf, x.icf)} :
        \E r \in {SEIR_init(a)} :
            /\ self' = r.v
            /\ op' = "__init__"
            /\ args' = a
            /\ raised' = r.raised
            /\ ret' = PyNone
    /\ UNCHANGED <<setCalled, simCalls>>

SetInitialState ==
    /\ self.tag = "SEIR"
    /\ \E sh \in StateShapes, probabilities \in BOOLEAN :
        \E a \in {SetArgs(sh, probabilities, self.num_compartments)} :
        \E r \in {set_initial_state(self, a.population_susceptible,
                                    a.population_exposed, a.population_infected,
                                    a.probabilities)} :
            /\ self' = IF r.raised = "" THEN [self EXCEPT !.Y0 = r.v] ELSE self
            /\ op' = "set_initial_state"
            /\ args' = a
            /\ raised' = r.raised
            /\ ret' = PyNone
    /\ setCalled' = TRUE
    /\ UNCHANGED simCalls

Simulate ==
    /\ self.tag = "SEIR"
    /\ \E days \in {MaxDays} :
        \E r \in {simulate(self, days)} :
            /\ self' = IF r.raised = "" THEN [self EXCEPT !.SEIR_solution = r.v] ELSE self
            /\ op' = "simulate"
            /\ args' = [days_to_simulate |-> days]
            /\ raised' = r.raised
            /\ ret' = PyNone
            /\ simCalls' = IF r.raised = "" \/ simCalls = "ok" THEN "ok" ELSE "failed"
    /\ UNCHANGED setCalled

EvaluateSolution ==
    /\ self.tag = "SEIR"
    /\ \E time \in TimeArrays(Horizon(self)) :
        \E r \in {evaluate_solution(self, time)} :
            /\ op' = "evaluate_solution"
            /\ args' = [time |-> time]
            /\ raised' = r.raised
            /\ ret' = r.v
    /\ UNCHANGED <<self, setCalled, simCalls>>

Call ==
    /\ self.tag = "SEIR"
    /\ \E t \in {0, MaxDays}, Y \in CallStates(self.num_compartments) :
        \E r \in {SEIR_call(self, t, Y)} :
            /\ op' = "__call__"
            /\ args' = [t |-> t, Y |-> Y]
            /\ raised' = r.raised
            /\ ret' = r.v
    /\ UNCHANGED <<self, setCalled, simCalls>>

Next == Construct \/ SetInitialState \/ Simulate \/ EvaluateSolution \/ Call

Spec == Init /\ [][Next]_vars

----------------------------------------------------------------------------
(* Properties *)

TenParams == ParamNames \ {"population"}
IsEvaluated == op = "evaluate_solution" /\ raised = ""
\* the initial state the last simulate integrated from is still the stored one
Y0Unchanged == self.Y0.v = self.SEIR_solution.solution[1]
\* the state the solution has at day t: the stored initial state before day 0
StateAt(s, t) == IF t < 0 THEN s.Y0.v ELSE s.SEIR_solution.solution[t + 1]

\* C1: simulate before any set_initial_state raises and stores no solution;
\* evaluate_solution before any simulate that returned raises and returns
\* nothing.
C1_PreconditionErrors ==
    /\ (op = "simulate" /\ ~setCalled) =>
           (raised # "" /\ self.SEIR_solution = PyNone)
    /\ (op = "evaluate_solution" /\ simCalls # "ok") =>
           (raised # "" /\ ret = PyNone)

\* C1's case: on an instance whose set_initial_state was never called, simulate
\* was called and raised, and then evaluate_solution was called and raised.
C1_BothCalledTooEarly ==
    /\ op = "evaluate_solution"
    /\ ~setCalled
    /\ simCalls = "failed"
    /\ raised = "TypeError"
    /\ ret = PyNone

C3_IcuSeriesFromExposed ==
    IsEvaluated =>
        ICU_new_cases_a_day(self, args.time).v =
            new_cases_a_day(
                self.icu_probability.v,
                BlockRows(SEIR_solution(self,
                              minus_lag(args.time, self.icu_lag_from_onset).v).v, 2),
                self.incubation_period.v)

\* C4: row k of the returned S, E, I, R is the state for time[k]: the initial
\* state when time[k] < 0, the trajectory at time[k] otherwise, in any order of
\* the query times.
C4_RowsFollowQueryOrder ==
    (IsEvaluated /\ Y0Unchanged) =>
        \A k \in 1..Len(args.time) :
            Concat4(ret.S[k], ret.E[k], ret.I[k], ret.R[k]) = StateAt(self, args.time[k])

\* C5: what evaluate_solution gives (its result or its exception) is what it
\* gives with the initial state that simulate integrated from, whatever
\* set_initial_state stored since.
C5_SolutionReadOnly ==
    (op = "evaluate_solution" /\ self.SEIR_solution # PyNone) =>
        LET consumed == Arr(self.SEIR_solution.solution[1])
            ref == evaluate_solution([self EXCEPT !.Y0 = consumed], args.time)
        IN  raised = ref.raised /\ ret = ref.v

\* C6: a construction that returns stores each of the ten per-compartment
\* parameters as a vector of length N, and a construction given a vector of
\* another length for one of them raises.
C6_TenVectorsOfLengthN ==
    op = "__init__" =>
        /\ raised = "" =>
               \A p \in TenParams :
                   self[p].tag = "ndarray" /\ Len(self[p].v) = self.num_compartments
        /\ (\E p \in TenParams :
                args[p].tag = "ndarray" /\ Len(args[p].v) # NOf(args.compartments))
               => raised # ""

\* C7: a construction given a contacts_matrix returns exactly when the matrix
\* is N x N, and then the infectivity matrix is computed from that matrix.
C7_ContactsMatrixValidated ==
    (op = "__init__" /\ args.contacts_matrix # PyNone) =>
        LET N == NOf(args.compartments)
            cm == args.contacts_matrix
        IN  /\ (raised = "") <=> (MatRows(cm) = N /\ MatCols(cm) = N)
            /\ raised = "" =>
                   self.infectivity_matrix =
                       compute_infectivity_matrix(self.infectious_period.v,
                           self.initial_R0, self.population.v, cm.v)

\* C8: with a restrictions_function configured, the derivative law returns, and
\* returns the rates for the infectivity matrix multiplied by the function's
\* value; for the value 0: dS/dt = 0, dE/dt = -E/incubation_period,
\* dI/dt = E/incubation_period - I/infectious_period, dR/dt = I/infectious_period.
C8_RestrictionsApplied ==
    (op = "__call__" /\ self.restrictions_function # PyNone) =>
        LET r == restrictions_value(self.restrictions_function, args.t)
            E == Block(args.Y, 2)
            I == Block(args.Y, 3)
            out == VDiv(E, self.incubation_period.v)
            rem == VDiv(I, self.infectious_period.v)
        IN  /\ raised = ""
            /\ ret = rate_law(self, MatScale(r, self.infectivity_matrix),
                              args.t, args.Y).v
            /\ r = Zero =>
                   ret = Concat4(zeros(self.num_compartments), VNeg(out),
                                 VSub(out, rem), rem)

\* C9: one compartment, death lag L, an ascending grid of days from day 0: the
\* cumulative deaths at day t are death_probability times the cumulative onset
\* (the running sum of E/incubation_period over the query days) at t - L, which
\* is 0 before the first query day.
C9_DeathsLagCumulativeOnset ==
    (/\ IsEvaluated /\ Y0Unchanged
     /\ self.num_compartments = 1
     /\ self.death_lag_from_onset.tag = "num"
     /\ \A k \in 1..Len(args.time) : args.time[k] = k - 1) =>
        LET L == self.death_lag_from_onset.v
            onset(j) == RDiv(ret.E[j][1], self.incubation_period.v[1])
            cumulative_onset(u) ==
                SumSeq([j \in 1..Len(args.time) |->
                            IF args.time[j] <= u THEN onset(j) ELSE Zero])
        IN  \A k \in 1..Len(args.time) :
                ret.deaths[k][1] =
                    RMul(self.death_probability.v[1], cumulative_onset(args.time[k] - L))

\* C10: set_initial_state given numbers or size-N arrays returns and stores a
\* state of length 4N whose R block is zero; given an array of another size it
\* raises and leaves the stored state as it was.
C10_SetInitialStateContract ==
    [][(op' = "set_initial_state" /\ self.tag = "SEIR") =>
        LET N == self.num_compartments
            ins == <<args'.population_susceptible, args'.population_exposed,
                     args'.population_infected>>
            sized(x) == x.tag = "num" \/ Len(x.v) = N
        IN  /\ (\A i \in 1..3 : sized(ins[i])) =>
                   /\ raised' = ""
                   /\ self'.Y0.tag = "ndarray"
                   /\ Len(self'.Y0.v) = 4 * N
                   /\ Block(self'.Y0.v, 4) = zeros(N)
            /\ (\E i \in 1..3 : ~sized(ins[i])) =>
                   (raised' # "" /\ self'.Y0 = self.Y0)]_vars

=============================================================================
